---- MODULE Spec2Model ----
(***************************************************************************)
(* Model of the Archer incident-report timer function:                     *)
(*   src/authentication.py           Authenticator.archer_auth_token       *)
(*   src/archer_api.py               ArcherAPI.get_report_records,         *)
(*                                   ArcherAPI.fetch_all_report_pages      *)
(*   src/incident-report-timer/__init__.py   main                          *)
(*                                                                         *)
(* Python strings are sequences of one-character strings, so that strip(), *)
(* concatenation, the substring test and date parsing are computed.        *)
(* Python's None (for a str-or-None value) is the sentinel None below.     *)
(***************************************************************************)
EXTENDS Integers, Sequences, FiniteSets, TLC

\* ---------------------------------------------------------------- bounds
MaxFields == 2
MaxPages == 3
MaxRows == 3

VARIABLES
    \* get_report_records, one Record element
    rpc,              \* "loop" while Field elements are consumed, "done" after append
    report_headers,   \* field id -> field name (get_report_headers)
    field,            \* the Field element of the last iteration, <<>> before the first
    prev_dict,        \* record_dict as it was before the last iteration
    record_dict,      \* the record being built
    records_list,     \* the records appended so far
    nfields,          \* Field elements consumed in this Record
    \* main and fetch_all_report_pages
    pc,                  \* position of main: "auth", "secrets", "fetch", "enrich", "upload", "done"
    outcome,             \* how the run ended (which boundary logged, or "raised")
    archer_token,        \* what archer_auth_token returned
    archer_page_number,  \* the loop counter of fetch_all_report_pages
    final_df,            \* the table accumulated by fetch_all_report_pages
    df,                  \* main's table, <<>> until the fetch has returned
    today,               \* pd.Timestamp('now').normalize(), <<>> until computed
    upload_attempts,     \* calls of upload_file_to_datalake
    \* what the run has seen of its environment
    handshake,           \* result of the session-creation handshake
    requested,           \* page numbers of the report requests issued, in order
    page_counts,         \* Record elements of each parsed page, in order
    report,              \* the report the endpoint serves: the kinds of its rows
    failed_page          \* first page whose request failed, 0 if none

recvars == <<rpc, report_headers, field, prev_dict, record_dict, records_list, nfields>>

mainvars == <<pc, outcome, archer_token, archer_page_number, final_df, df, today,
              upload_attempts, handshake, requested, page_counts, report, failed_page>>

vars == <<recvars, mainvars>>

\* ---------------------------------------------------------------- strings
None == <<"<None>">>

S_FirstName == <<"_", "F", "i", "r", "s", "t", "N", "a", "m", "e">>
S_LastName == <<"_", "L", "a", "s", "t", "N", "a", "m", "e">>
S_FieldPrefix == <<"F", "i", "e", "l", "d", "_">>

\* bool(x) for a str-or-None value: None and '' are falsy
Truthy(x) == x # None /\ x # <<>>

IsSpace(c) == c \in {" ", "\t", "\n"}

RECURSIVE LStrip(_)
LStrip(s) == IF s # <<>> /\ IsSpace(Head(s)) THEN LStrip(Tail(s)) ELSE s

RECURSIVE RStrip(_)
RStrip(s) == IF s # <<>> /\ IsSpace(s[Len(s)]) THEN RStrip(SubSeq(s, 1, Len(s) - 1)) ELSE s

\* str.strip()
Strip(s) == RStrip(LStrip(s))

\* `x.text.strip() if x.text else ''`
StrippedText(text) == IF Truthy(text) THEN Strip(text) ELSE <<>>

\* element.get(attr, default): a missing attribute is None in the element
AttrGet(attr, default) == IF attr = None THEN default ELSE attr

\* dict assignment d[k] = v
Put(d, k, v) == [x \in DOMAIN d \cup {k} |-> IF x = k THEN v ELSE d[x]]

EmptyDict == [x \in {} |-> <<>>]

\* ---------------------------------------------------------------- pandas values
(* A cell of a DataFrame is [t, s, n]: a str (s), NaN, NaT, a Timestamp     *)
(* (n minutes since 1970-01-01 00:00) or a number (n).                      *)
StrCell(s) == [t |-> "str", s |-> s, n |-> 0]
NaN == [t |-> "NaN", s |-> <<>>, n |-> 0]
NaT == [t |-> "NaT", s |-> <<>>, n |-> 0]
Timestamp(n) == [t |-> "Timestamp", s |-> <<>>, n |-> n]
NumCell(n) == [t |-> "num", s |-> <<>>, n |-> n]

\* a DataFrame is its set of column labels and its rows, each a function
\* from the columns to cells
EmptyDataFrame == [columns |-> {}, rows |-> <<>>]

\* a row given the (possibly wider) columns, missing cells filled with NaN
Reindex(row, columns) ==
    [c \in columns |-> IF c \in DOMAIN row THEN row[c] ELSE NaN]

\* pd.DataFrame(list of dicts)
DataFrameOf(records) ==
    LET columns == UNION {DOMAIN records[i] : i \in 1..Len(records)}
    IN  [columns |-> columns,
         rows |-> [i \in 1..Len(records) |->
                     [c \in columns |-> IF c \in DOMAIN records[i]
                                        THEN StrCell(records[i][c]) ELSE NaN]]]

\* pd.concat([a, b]): the rows of a, then the rows of b
Concat(a, b) ==
    LET columns == a.columns \cup b.columns
    IN  [columns |-> columns,
         rows |-> [i \in 1..Len(a.rows) |-> Reindex(a.rows[i], columns)]
                  \o [i \in 1..Len(b.rows) |-> Reindex(b.rows[i], columns)]]

\* ---------------------------------------------------------------- get_report_records
(* A Field element is [id, text, ListValues, Reference, Users]:             *)
(*   text        the element's direct text (None when it has none)          *)
(*   ListValues  the elements matched by './/ListValues/ListValue', in      *)
(*               document order, each [displayName]                         *)
(*   Reference   the elements matched by './/Reference', each [text]        *)
(*   Users       the elements matched by './/Users/User', each              *)
(*               [text, firstName, lastName]                                *)
(* Element.find returns the first match, or None when the sequence is <<>>. *)

extract_list_value(f) ==
    IF f.ListValues # <<>> THEN Head(f.ListValues).displayName ELSE None

extract_reference(f) ==
    IF f.Reference # <<>> THEN StrippedText(Head(f.Reference).text) ELSE None

\* the mutant of extract_users that swaps the two name attributes
extract_users_swapped(f) ==
    IF f.Users # <<>>
    THEN <<[email |-> StrippedText(Head(f.Users).text),
            firstName |-> AttrGet(Head(f.Users).lastName, <<>>),
            lastName |-> AttrGet(Head(f.Users).firstName, <<>>)]>>
    ELSE <<>>

\* returns <<user_data>>, or <<>> for None (a non-empty dict is truthy)
extract_users(f) ==
    IF f.Users # <<>>
    THEN <<[email |-> StrippedText(Head(f.Users).text),
            firstName |-> AttrGet(Head(f.Users).firstName, <<>>),
            lastName |-> AttrGet(Head(f.Users).lastName, <<>>)]>>
    ELSE <<>>

\* the mutant of field_text that forgets to strip
field_text_unstripped(f) == IF Truthy(f.text) THEN f.text ELSE <<>>

\* field_value = field.text.strip() if field.text else ''
field_text(f) == StrippedText(f.text)

\* report_headers.get(field_id, f'Field_{field_id}')
field_name(f, headers) ==
    IF f.id \in DOMAIN headers THEN headers[f.id] ELSE S_FieldPrefix \o f.id

\* one iteration of `for field in record.findall('.//Field')`
ProcessField(d, f, headers) ==
    LET name == field_name(f, headers)
        text == field_text(f)
        extracted_list_value == extract_list_value(f)
        extracted_reference == extract_reference(f)
        extracted_user == extract_users(f)
    IN  IF text # <<>> THEN Put(d, name, text)
        ELSE IF Truthy(extracted_list_value) THEN Put(d, name, extracted_list_value)
        ELSE IF Truthy(extracted_reference) THEN Put(d, name, extracted_reference)
        ELSE IF extracted_user # <<>>
             THEN Put(Put(Put(d, name \o S_FirstName, extracted_user[1].firstName),
                          name \o S_LastName, extracted_user[1].lastName),
                      name, extracted_user[1].email)
        ELSE Put(d, name, text)

\* the inner loop over the Field elements of one Record
RECURSIVE RecordDict(_, _, _)
RecordDict(d, fields, headers) ==
    IF fields = <<>> THEN d
    ELSE RecordDict(ProcessField(d, Head(fields), headers), Tail(fields), headers)

\* get_report_records: one dict per Record element, in document order
GetReportRecords(records, headers) ==
    [i \in 1..Len(records) |-> RecordDict(EmptyDict, records[i], headers)]

\* ---------------------------------------------------------------- inputs of get_report_records
S_Owner == <<"O", "w", "n", "e", "r">>

FieldIds == {<<"1">>, <<"9">>}
FieldTexts == {None, <<" ">>, <<" ", "a", " ">>}
ListValuesChoices ==
    {<<>>, <<[displayName |-> None]>>, <<[displayName |-> <<>>]>>,
     <<[displayName |-> <<"L">>]>>,
     <<[displayName |-> <<"L">>], [displayName |-> <<"M">>]>>}
ReferenceChoices == {<<>>, <<[text |-> None]>>, <<[text |-> <<"R", " ">>]>>}
UsersChoices ==
    {<<>>, <<[text |-> None, firstName |-> None, lastName |-> None]>>,
     <<[text |-> <<" ", "e">>, firstName |-> <<"F">>, lastName |-> <<"N">>]>>}

FieldElems ==
    [id : FieldIds, text : FieldTexts, ListValues : ListValuesChoices,
     Reference : ReferenceChoices, Users : UsersChoices]

\* the schema names field 1; field 9 has no FieldDefinition
HeaderChoices == {[x \in {<<"1">>} |-> S_Owner], [x \in {} |-> <<>>]}

\* main is not running
MainIdle ==
    /\ pc = "idle"
    /\ outcome = "none"
    /\ archer_token = None
    /\ archer_page_number = 0
    /\ final_df = EmptyDataFrame
    /\ df = <<>>
    /\ today = <<>>
    /\ upload_attempts = 0
    /\ handshake = "none"
    /\ requested = <<>>
    /\ page_counts = <<>>
    /\ report = <<>>
    /\ failed_page = 0

RecInit ==
    /\ rpc = "loop"
    /\ report_headers \in HeaderChoices
    /\ field = <<>>
    /\ prev_dict = EmptyDict
    /\ record_dict = EmptyDict
    /\ records_list = <<>>
    /\ nfields = 0
    /\ MainIdle

\* lines 138-157: the next Field element of the Record
NextField ==
    /\ rpc = "loop"
    /\ nfields < MaxFields
    /\ \E f \in FieldElems :
        /\ field' = <<f>>
        /\ prev_dict' = record_dict
        /\ record_dict' = ProcessField(record_dict, f, report_headers)
    /\ nfields' = nfields + 1
    /\ UNCHANGED <<rpc, report_headers, records_list, mainvars>>

\* line 160: records_list.append(record_dict)
AppendRecord ==
    /\ rpc = "loop"
    /\ records_list' = Append(records_list, record_dict)
    /\ rpc' = "done"
    /\ UNCHANGED <<report_headers, field, prev_dict, record_dict, nfields, mainvars>>

RecNext == NextField \/ AppendRecord

SpecRecords == RecInit /\ [][RecNext]_vars

\* ---------------------------------------------------------------- numbers and dates as text
DigitChars == <<"0", "1", "2", "3", "4", "5", "6", "7", "8", "9">>
IsDigit(c) == \E i \in 1..10 : DigitChars[i] = c
DigitValue(c) == (CHOOSE i \in 1..10 : DigitChars[i] = c) - 1
AllDigits(s) == \A i \in 1..Len(s) : IsDigit(s[i])

\* int(s) for a string of digits
RECURSIVE ToInt(_)
ToInt(s) ==
    IF s = <<>> THEN 0
    ELSE 10 * ToInt(SubSeq(s, 1, Len(s) - 1)) + DigitValue(s[Len(s)])

\* str(n) for n >= 0
RECURSIVE IntToStr(_)
IntToStr(n) ==
    IF n < 10 THEN <<DigitChars[n + 1]>>
    ELSE IntToStr(n \div 10) \o <<DigitChars[(n % 10) + 1]>>

\* `sub in s`
Contains(s, sub) ==
    \E i \in 0..(Len(s) - Len(sub)) : SubSeq(s, i + 1, i + Len(sub)) = sub

IsLeap(y) == (y % 4 = 0 /\ y % 100 # 0) \/ y % 400 = 0
DaysInMonth(y, m) ==
    IF m = 2 THEN (IF IsLeap(y) THEN 29 ELSE 28)
    ELSE IF m \in {4, 6, 9, 11} THEN 30 ELSE 31

RECURSIVE DaysBeforeMonth(_, _)
DaysBeforeMonth(y, m) ==
    IF m = 1 THEN 0 ELSE DaysBeforeMonth(y, m - 1) + DaysInMonth(y, m - 1)

LeapsBefore(y) == ((y - 1) \div 4) - ((y - 1) \div 100) + ((y - 1) \div 400)
DaysBeforeYear(y) == 365 * (y - 1970) + LeapsBefore(y) - LeapsBefore(1970)

\* minutes from 1970-01-01 00:00 to y-m-d hh:mm
CivilMinutes(y, m, d, hh, mm) ==
    ((DaysBeforeYear(y) + DaysBeforeMonth(y, m) + d - 1) * 24 + hh) * 60 + mm

\* the texts read as dates here: "DD/MM/YYYY" and "DD/MM/YYYY HH:MM"
HasDateShape(s) ==
    /\ Len(s) \in {10, 16}
    /\ s[3] = "/" /\ s[6] = "/"
    /\ AllDigits(SubSeq(s, 1, 2)) /\ AllDigits(SubSeq(s, 4, 5))
    /\ AllDigits(SubSeq(s, 7, 10))
    /\ Len(s) = 16 =>
         /\ s[11] = " " /\ s[14] = ":"
         /\ AllDigits(SubSeq(s, 12, 13)) /\ AllDigits(SubSeq(s, 15, 16))

\* the Timestamp of a date text read with the given day and month, NaT when
\* that is no calendar date
DateOf(s, day, month) ==
    LET y == ToInt(SubSeq(s, 7, 10))
        hh == IF Len(s) = 16 THEN ToInt(SubSeq(s, 12, 13)) ELSE 0
        mm == IF Len(s) = 16 THEN ToInt(SubSeq(s, 15, 16)) ELSE 0
    IN  IF /\ month \in 1..12
           /\ day >= 1 /\ day <= DaysInMonth(y, month)
           /\ hh <= 23 /\ mm <= 59
        THEN Timestamp(CivilMinutes(y, month, day, hh, mm))
        ELSE NaT

\* pd.to_datetime(value, errors='coerce', dayfirst=True) of one cell:
\* NaN, '' and any text that is no date are coerced to NaT
to_datetime(cell) ==
    IF cell.t # "str" \/ ~HasDateShape(cell.s) THEN NaT
    ELSE DateOf(cell.s, ToInt(SubSeq(cell.s, 1, 2)), ToInt(SubSeq(cell.s, 4, 5)))

\* Timestamp.normalize(): midnight of the same day
normalize(cell) ==
    IF cell.t = "Timestamp" THEN Timestamp(cell.n - (cell.n % 1440)) ELSE cell

\* (a - b).days for two datetime cells, NaN when either is NaT
DaysBetween(a, b) ==
    IF a.t = "Timestamp" /\ b.t = "Timestamp"
    THEN NumCell((a.n - b.n) \div 1440) ELSE NaN

\* ---------------------------------------------------------------- main: enrichment
S_Date == <<"D", "a", "t", "e">>
S_DateCreated == <<"D", "a", "t", "e", " ", "C", "r", "e", "a", "t", "e", "d">>
S_DateTimeClosed ==
    <<"D", "a", "t", "e", "/", "T", "i", "m", "e", " ", "C", "l", "o", "s", "e", "d">>
S_DaysOpen == <<"D", "a", "y", "s", " ", "O", "p", "e", "n">>
S_TrackingID == <<"T", "r", "a", "c", "k", "i", "n", "g", " ", "I", "D">>

\* date_columns = [col for col in df.columns if 'Date' in col]
date_columns(frame) == {c \in frame.columns : Contains(c, S_Date)}

\* lines 54-55: every date column parsed and normalized
ConvertDates(frame) ==
    [columns |-> frame.columns,
     rows |-> [i \in 1..Len(frame.rows) |->
                 [c \in frame.columns |->
                    IF c \in date_columns(frame)
                    THEN normalize(to_datetime(frame.rows[i][c]))
                    ELSE frame.rows[i][c]]]]

\* the mutant of DaysOpenOf with the two np.where branches exchanged
DaysOpenOf_swapped(row, now) ==
    IF row[S_DateTimeClosed].t = "NaT"
    THEN DaysBetween(row[S_DateTimeClosed], row[S_DateCreated])
    ELSE DaysBetween(now, row[S_DateCreated])

\* lines 59-61: np.where(isnull(closed), (today - created).days, (closed - created).days)
DaysOpenOf(row, now) ==
    IF row[S_DateTimeClosed].t = "NaT"
    THEN DaysBetween(now, row[S_DateCreated])
    ELSE DaysBetween(row[S_DateTimeClosed], row[S_DateCreated])

\* df['Date/Time Closed'] and df['Date Created'] raise KeyError when absent
EnrichRaises(frame) ==
    S_DateTimeClosed \notin frame.columns \/ S_DateCreated \notin frame.columns

\* lines 50-62 on a table that has both columns
Enriched(frame, now) ==
    LET conv == ConvertDates(frame)
        columns == conv.columns \cup {S_DaysOpen}
    IN  [columns |-> columns,
         rows |-> [i \in 1..Len(conv.rows) |->
                     [c \in columns |->
                        IF c = S_DaysOpen THEN DaysOpenOf(conv.rows[i], now)
                        ELSE conv.rows[i][c]]]]

\* ---------------------------------------------------------------- archer_auth_token
S_Error == <<"E", "r", "r", "o", "r", ":", " ">>
S_Token == <<"t", "o", "k">>

HttpStatuses == {200, 500}

(* The handshake as the environment answers it: whether the secret lookups  *)
(* succeed, whether requests.post returns, the status code, and the text of *)
(* the CreateUserSessionFromInstanceResult element (None when the body has  *)
(* no such element or is not XML).                                          *)
AuthEnvs == [secrets : BOOLEAN, post : BOOLEAN, status : HttpStatuses,
             result : {None, S_Token}]

Raised == [raised |-> TRUE, value |-> None]
Returned(v) == [raised |-> FALSE, value |-> v]

archer_auth_token(env) ==
    IF ~env.secrets THEN Raised
    ELSE IF ~env.post THEN Raised
    ELSE IF env.status = 200
         THEN (IF env.result = None THEN Raised ELSE Returned(env.result))
         ELSE Returned(S_Error \o IntToStr(env.status))

HandshakeResult(env) ==
    IF ~env.secrets THEN "secret_error"
    ELSE IF ~env.post THEN "request_error"
    ELSE IF env.status # 200 THEN "status_error"
    ELSE IF env.result = None THEN "bad_body"
    ELSE "ok"

\* ---------------------------------------------------------------- report pages
PlainField(id, text) ==
    [id |-> id, text |-> text, ListValues |-> <<>>, Reference |-> <<>>, Users |-> <<>>]

\* the FieldDefinition elements of the report
Schema ==
    <<[id |-> <<"1">>, name |-> S_TrackingID],
      [id |-> <<"2">>, name |-> S_DateCreated],
      [id |-> <<"3">>, name |-> S_DateTimeClosed]>>

S_01_01_2024 == <<"0", "1", "/", "0", "1", "/", "2", "0", "2", "4">>
S_28_02_2024 == <<"2", "8", "/", "0", "2", "/", "2", "0", "2", "4">>
S_05_01_2024_1345 ==
    <<"0", "5", "/", "0", "1", "/", "2", "0", "2", "4", " ", "1", "3", ":", "4", "5">>
S_01_03_2024_0830 ==
    <<"0", "1", "/", "0", "3", "/", "2", "0", "2", "4", " ", "0", "8", ":", "3", "0">>

\* the text of the Tracking ID field of record i of page p
TrackingText(p, i) == IntToStr(p) \o <<"-">> \o IntToStr(i)

\* the Field elements of record i of page p
RecordXml(p, i, kind) ==
    LET id == PlainField(<<"1">>, TrackingText(p, i))
    IN  CASE kind = "closed" ->
               <<id, PlainField(<<"2">>, S_01_01_2024),
                     PlainField(<<"3">>, S_05_01_2024_1345)>>
          [] kind = "open" ->
               <<id, PlainField(<<"2">>, S_01_01_2024), PlainField(<<"3">>, None)>>
          [] kind = "plain" -> <<id>>
          [] kind = "nocreated" -> <<id, PlainField(<<"3">>, S_05_01_2024_1345)>>
          [] kind = "leap" ->
               <<id, PlainField(<<"2">>, S_28_02_2024),
                     PlainField(<<"3">>, S_01_03_2024_0830)>>

\* the reports served: the row kinds, repeated cyclically over the rows
Reports ==
    {<<"closed">>, <<"open">>, <<"plain">>, <<"nocreated">>, <<"leap">>,
     <<"closed", "open">>, <<"open", "plain", "leap">>, <<"nocreated", "closed">>}

\* the kind of record i of page p of report rep
KindOf(rep, p, i) == rep[((p + i) % Len(rep)) + 1]

\* the inner document of page p of report rep, holding n Record elements
PageDoc(rep, p, n) ==
    [FieldDefinitions |-> Schema,
     Records |-> [i \in 1..n |-> RecordXml(p, i, KindOf(rep, p, i))]]

(* A page request as the environment answers it: whether requests.post      *)
(* returns, the status code, whether the body unwraps ("ok") or not, and    *)
(* the number of Record elements of the inner document. The code reads the  *)
(* body only.                                                               *)
PageEnvs ==
    [post : {FALSE}, status : {0}, parse : {"none"}, n : {0}]
    \cup [post : {TRUE}, status : HttpStatuses,
          parse : {"not_xml", "no_result", "bad_inner"}, n : {0}]
    \cup [post : {TRUE}, status : HttpStatuses, parse : {"ok"}, n : 0..MaxRows]

\* the request failed: a network error or a non-2xx response
RequestFailed(env) == ~env.post \/ ~(env.status \in 200..299)

\* requests.post followed by response_to_xml raises
ResponseRaises(env) == ~env.post \/ env.parse # "ok"

\* get_report_headers: later definitions of an id overwrite earlier ones
get_report_headers(doc) ==
    LET defs == doc.FieldDefinitions
        Last(id) == CHOOSE i \in 1..Len(defs) :
                       /\ defs[i].id = id
                       /\ \A j \in (i + 1)..Len(defs) : defs[j].id # id
    IN  [id \in {defs[i].id : i \in 1..Len(defs)} |-> defs[Last(id)].name]

\* the mutant of Accumulate that appends the new page
Accumulate_appending(page_df, acc) == Concat(acc, page_df)

\* line 232: final_df = pd.concat([df, final_df])
Accumulate(page_df, acc) == Concat(page_df, acc)

\* the mutant of PageIsEmpty that also stops on a one-record page
PageIsEmpty_short(doc) == Len(doc.Records) <= 1

\* line 224: `not xml_response.findall('.//Record')`
PageIsEmpty(doc) == doc.Records = <<>>

\* ---------------------------------------------------------------- main
NowChoices == {CivilMinutes(2024, 1, 10, 9, 30), CivilMinutes(2024, 3, 1, 0, 0)}

Init ==
    /\ pc = "auth"
    /\ outcome = "running"
    /\ archer_token = None
    /\ archer_page_number = 0
    /\ final_df = EmptyDataFrame
    /\ df = <<>>
    /\ today = <<>>
    /\ upload_attempts = 0
    /\ handshake = "none"
    /\ requested = <<>>
    /\ page_counts = <<>>
    /\ report \in Reports
    /\ failed_page = 0
    /\ rpc = "idle"
    /\ report_headers = EmptyDict
    /\ field = <<>>
    /\ prev_dict = EmptyDict
    /\ record_dict = EmptyDict
    /\ records_list = <<>>
    /\ nfields = 0

\* main lines 26-32: the first failure boundary
Authenticate ==
    /\ pc = "auth"
    /\ \E env \in AuthEnvs :
        /\ handshake' = HandshakeResult(env)
        /\ IF archer_auth_token(env).raised
           THEN /\ pc' = "done"
                /\ outcome' = "auth_error"
                /\ UNCHANGED archer_token
           ELSE /\ pc' = "secrets"
                /\ archer_token' = archer_auth_token(env).value
                /\ UNCHANGED outcome
    /\ UNCHANGED <<archer_page_number, final_df, df, today, upload_attempts,
                   requested, page_counts, report, failed_page, recvars>>

\* main lines 34-40, then the entry of fetch_all_report_pages (lines 206-211)
FetchSecrets ==
    /\ pc = "secrets"
    /\ \E ok \in BOOLEAN :
        IF ok
        THEN /\ pc' = "fetch"
             /\ archer_page_number' = 1
             /\ final_df' = EmptyDataFrame
             /\ UNCHANGED outcome
        ELSE /\ pc' = "done"
             /\ outcome' = "secrets_error"
             /\ UNCHANGED <<archer_page_number, final_df>>
    /\ UNCHANGED <<archer_token, df, today, upload_attempts, handshake,
                   requested, page_counts, report, failed_page, recvars>>

\* one iteration of the loop of fetch_all_report_pages (lines 213-235),
\* its return (line 237) and main's boundary around it (lines 43-48)
FetchPage ==
    /\ pc = "fetch"
    /\ archer_page_number <= MaxPages
    /\ \E env \in PageEnvs :
        LET doc == PageDoc(report, archer_page_number, env.n)
        IN  /\ requested' = Append(requested, archer_page_number)
            /\ failed_page' = IF failed_page = 0 /\ RequestFailed(env)
                              THEN archer_page_number ELSE failed_page
            /\ IF ResponseRaises(env)
               THEN /\ pc' = "done"
                    /\ outcome' = "fetch_error"
                    /\ UNCHANGED <<archer_page_number, final_df, df, page_counts>>
               ELSE /\ page_counts' = Append(page_counts, Len(doc.Records))
                    /\ IF PageIsEmpty(doc)
                       THEN /\ df' = <<final_df>>
                            /\ pc' = "enrich"
                            /\ UNCHANGED <<archer_page_number, final_df>>
                       ELSE /\ final_df' =
                                 Accumulate(
                                   DataFrameOf(GetReportRecords(doc.Records,
                                                   get_report_headers(doc))),
                                   final_df)
                            /\ archer_page_number' = archer_page_number + 1
                            /\ UNCHANGED <<pc, df>>
                    /\ UNCHANGED outcome
    /\ UNCHANGED <<archer_token, today, upload_attempts, handshake, report, recvars>>

\* the mutant of Enrich that logs the KeyError and goes on to the upload
Enrich_caught ==
    /\ pc = "enrich"
    /\ \E now \in NowChoices :
        /\ today' = <<normalize(Timestamp(now))>>
        /\ df' = IF EnrichRaises(df[1]) THEN df
                 ELSE <<Enriched(df[1], normalize(Timestamp(now)))>>
        /\ pc' = "upload"
        /\ UNCHANGED outcome
    /\ UNCHANGED <<archer_token, archer_page_number, final_df, upload_attempts,
                   handshake, requested, page_counts, report, failed_page, recvars>>

\* main lines 50-62: outside every try block
Enrich ==
    /\ pc = "enrich"
    /\ \E now \in NowChoices :
        /\ today' = <<normalize(Timestamp(now))>>
        /\ IF EnrichRaises(df[1])
           THEN /\ pc' = "done"
                /\ outcome' = "raised"
                /\ UNCHANGED df
           ELSE /\ df' = <<Enriched(df[1], normalize(Timestamp(now)))>>
                /\ pc' = "upload"
                /\ UNCHANGED outcome
    /\ UNCHANGED <<archer_token, archer_page_number, final_df, upload_attempts,
                   handshake, requested, page_counts, report, failed_page, recvars>>

\* main lines 66-79: the upload and its boundary
Upload ==
    /\ pc = "upload"
    /\ upload_attempts' = upload_attempts + 1
    /\ \E ok \in BOOLEAN :
        outcome' = IF ok THEN "uploaded" ELSE "upload_error"
    /\ pc' = "done"
    /\ UNCHANGED <<archer_token, archer_page_number, final_df, df, today,
                   handshake, requested, page_counts, report, failed_page, recvars>>

Next == Authenticate \/ FetchSecrets \/ FetchPage \/ Enrich \/ Upload

Spec == Init /\ [][Next]_vars

\* ---------------------------------------------------------------- claims on get_report_records
\* the Field element of the last iteration and its resolved name
LastField == field[1]
LastFieldName == field_name(LastField, report_headers)
TrimmedTextEmpty(f) == f.text = None \/ Strip(f.text) = <<>>

\* C7: a Field whose trimmed direct text is non-empty stores exactly that
\* trimmed text under its name, whatever ListValue, Reference or User
\* descendants it has, and nothing else in the record changes (no
\* _FirstName / _LastName entry is added).
C7_PlainTextWins ==
    (field # <<>> /\ ~TrimmedTextEmpty(LastField))
        => record_dict = Put(prev_dict, LastFieldName, Strip(LastField.text))

C7_Witness ==
    /\ field # <<>>
    /\ ~TrimmedTextEmpty(LastField)
    /\ LastField.ListValues # <<>>
    /\ LastField.Reference # <<>>
    /\ LastField.Users # <<>>
    /\ record_dict[LastFieldName] = <<"a">>

\* the branch of the code that takes the value from the Users/User descendant
ResolvedAsUser(f) ==
    /\ TrimmedTextEmpty(f)
    /\ f.ListValues = <<>> \/ Head(f.ListValues).displayName \in {None, <<>>}
    /\ f.Reference = <<>> \/ Head(f.Reference).text = None
                          \/ Strip(Head(f.Reference).text) = <<>>
    /\ f.Users # <<>>

\* C6: a Field resolved as a user identity writes exactly three entries:
\* <name> = the User's trimmed text, <name>_FirstName = its firstName
\* attribute, <name>_LastName = its lastName attribute (each '' by default);
\* a Field resolved by any other branch writes exactly one entry, <name>.
C6_UserEntries ==
    field # <<>> =>
        LET f == LastField
            u == Head(f.Users)
        IN  IF ResolvedAsUser(f)
            THEN /\ DOMAIN record_dict = DOMAIN prev_dict \cup
                        {LastFieldName, LastFieldName \o S_FirstName, LastFieldName \o S_LastName}
                 /\ record_dict[LastFieldName] = (IF u.text = None THEN <<>> ELSE Strip(u.text))
                 /\ record_dict[LastFieldName \o S_FirstName] =
                        (IF u.firstName = None THEN <<>> ELSE u.firstName)
                 /\ record_dict[LastFieldName \o S_LastName] =
                        (IF u.lastName = None THEN <<>> ELSE u.lastName)
                 /\ \A k \in DOMAIN prev_dict :
                        k \notin {LastFieldName, LastFieldName \o S_FirstName, LastFieldName \o S_LastName}
                            => record_dict[k] = prev_dict[k]
            ELSE /\ DOMAIN record_dict = DOMAIN prev_dict \cup {LastFieldName}
                 /\ \A k \in DOMAIN prev_dict :
                        k # LastFieldName => record_dict[k] = prev_dict[k]

C6_Witness ==
    /\ field # <<>>
    /\ ResolvedAsUser(LastField)
    /\ Head(LastField.Users).firstName = <<"F">>
    /\ record_dict[LastFieldName \o S_FirstName] = <<"F">>
    /\ record_dict[LastFieldName \o S_LastName] = <<"N">>
    /\ record_dict[LastFieldName] = <<"e">>

\* C1: a Field with empty trimmed text, no ListValue descendant and a
\* Reference descendant whose text is empty stores '' under its name and
\* user extraction is not applied, even when a Users/User descendant exists.
C1_EmptyReferenceIsFinal ==
    (/\ field # <<>>
     /\ TrimmedTextEmpty(LastField)
     /\ LastField.ListValues = <<>>
     /\ LastField.Reference # <<>>
     /\ Head(LastField.Reference).text = None)
        => record_dict = Put(prev_dict, LastFieldName, <<>>)

\* C2: a Field with empty trimmed text and a ListValue descendant stores the
\* first ListValue's displayName under its name, for every displayName
\* (empty or missing included), whatever Reference or User descendants exist.
C2_ListValueDisplayName ==
    (/\ field # <<>>
     /\ TrimmedTextEmpty(LastField)
     /\ LastField.ListValues # <<>>)
        => record_dict[LastFieldName] =
              (IF Head(LastField.ListValues).displayName = None
               THEN <<>> ELSE Head(LastField.ListValues).displayName)

\* ---------------------------------------------------------------- claims on main
\* the page and the position in its page of a row, read from its Tracking ID
DashPos(s) == CHOOSE k \in 1..Len(s) : s[k] = "-"
RowPage(r) == ToInt(SubSeq(r[S_TrackingID].s, 1, DashPos(r[S_TrackingID].s) - 1))
RowIndex(r) ==
    ToInt(SubSeq(r[S_TrackingID].s, DashPos(r[S_TrackingID].s) + 1, Len(r[S_TrackingID].s)))

RECURSIVE SumSeq(_)
SumSeq(q) == IF q = <<>> THEN 0 ELSE Head(q) + SumSeq(Tail(q))

\* C3: when the handshake fails (a non-200 status, or a secret lookup or
\* the request raising), no report page is requested and nothing is uploaded.
C3_AuthFailureAborts ==
    handshake \in {"secret_error", "request_error", "status_error"}
        => requested = <<>> /\ upload_attempts = 0

\* C4: when a page request fails (network error or non-2xx response), the
\* fetch stops at that page, no table is returned, and nothing is enriched
\* or uploaded.
C4_PageFailureAborts ==
    failed_page # 0
        => /\ Len(requested) = failed_page
           /\ pc = "done" /\ outcome = "fetch_error"
           /\ df = <<>> /\ today = <<>>
           /\ upload_attempts = 0

PagesReversed(frame) ==
    \A a, b \in 1..Len(frame.rows) :
        a < b => \/ RowPage(frame.rows[a]) > RowPage(frame.rows[b])
                 \/ /\ RowPage(frame.rows[a]) = RowPage(frame.rows[b])
                    /\ RowIndex(frame.rows[a]) < RowIndex(frame.rows[b])

LacksDateColumn ==
    df # <<>> /\ (S_DateTimeClosed \notin df[1].columns \/ S_DateCreated \notin df[1].columns)

\* C10: when the table lacks "Date/Time Closed" or "Date Created" (an empty
\* first page included), the enrichment fails outside every failure boundary:
\* the run ends by the exception leaving main and no upload is attempted.
C10_MissingColumnFatal ==
    /\ LacksDateColumn => pc \in {"enrich", "done"} /\ upload_attempts = 0
    /\ (LacksDateColumn /\ pc = "done") => outcome = "raised"
    /\ (page_counts = <<0>> /\ pc = "done") => outcome = "raised" /\ upload_attempts = 0

C10_Witness ==
    /\ pc = "done" /\ outcome = "raised"
    /\ S_DateTimeClosed \in df[1].columns
    /\ S_DateCreated \notin df[1].columns

\* the run has enriched its table
EnrichedTable == df # <<>> /\ S_DaysOpen \in df[1].columns

\* C8: in every row, Days Open is Date/Time Closed minus Date Created in whole
\* days when the closing date is non-null, today minus Date Created
\* otherwise: created 01/01/2024 and closed 05/01/2024 gives 4, created
\* 01/01/2024 and no closing date gives 9 on 2024-01-10.
C8_DaysOpen ==
    EnrichedTable =>
        \A k \in 1..Len(df[1].rows) :
            LET r == df[1].rows[k]
                kind == KindOf(report, RowPage(r), RowIndex(r))
                closed == r[S_DateTimeClosed]
                created == r[S_DateCreated]
            IN  /\ (closed.t = "Timestamp" /\ created.t = "Timestamp")
                      => /\ r[S_DaysOpen].t = "num"
                         /\ r[S_DaysOpen].n * 1440 = closed.n - created.n
                /\ (closed.t # "Timestamp" /\ created.t = "Timestamp")
                      => /\ r[S_DaysOpen].t = "num"
                         /\ r[S_DaysOpen].n * 1440 = today[1].n - created.n
                /\ created.t # "Timestamp" => r[S_DaysOpen] = NaN
                /\ kind = "closed" => r[S_DaysOpen] = NumCell(4)
                /\ kind = "leap" => r[S_DaysOpen] = NumCell(2)
                /\ (kind = "open" /\ today[1].n = 28414080) => r[S_DaysOpen] = NumCell(9)
                /\ (kind = "open" /\ today[1].n = 28487520) => r[S_DaysOpen] = NumCell(60)
                /\ kind \in {"plain", "nocreated"} => r[S_DaysOpen] = NaN

C8_Witness ==
    /\ pc = "upload"
    /\ today[1].n = 28414080
    /\ \E k \in 1..Len(df[1].rows) :
          /\ KindOf(report, RowPage(df[1].rows[k]), RowIndex(df[1].rows[k])) = "closed"
          /\ df[1].rows[k][S_DaysOpen] = NumCell(4)
    /\ \E k \in 1..Len(df[1].rows) :
          /\ KindOf(report, RowPage(df[1].rows[k]), RowIndex(df[1].rows[k])) = "open"
          /\ df[1].rows[k][S_DaysOpen] = NumCell(9)

====
